---------------------------- MODULE Spec2Model ----------------------------
(***************************************************************************)
(* Model of the my-todo REST service: the todo repository in its in-memory *)
(* variant (a HashMap<i32, Todo> behind Arc<RwLock<..>>) and its database  *)
(* variant (one SQL statement per round trip), the validated JSON          *)
(* extractor and the HTTP handlers; the label repository in its database   *)
(* variant; the lock and the copies of the in-memory repository.           *)
(***************************************************************************)
EXTENDS Naturals, Integers, Sequences, FiniteSets, TLC

(***************************************************************************)
(* Bounds of the model.                                                    *)
(***************************************************************************)
\* Number of create calls issued against the in-memory store in one run.
MaxCreates == 3
\* Number of accepted POST /todos requests in one run.
MaxPosts == 2
\* Number of rows inserted into the todos table in one run.
MaxSerial == 1
\* Number of ids the serial column of the labels table gives in one run.
MaxLabelSerial == 2
\* Number of records the shared in-memory store holds at most.
MaxStored == 2

(***************************************************************************)
(* Program constants.                                                      *)
(***************************************************************************)
\* #[validate(length(min = 1, ...))]
MinTextLen == 1
\* #[validate(length(max = 100, ...))]
MaxTextLen == 100

(***************************************************************************)
(* Values.                                                                 *)
(***************************************************************************)
\* A text of n characters, as the test requests build them ("aaa...").
RECURSIVE Rep(_)
Rep(n) == IF n = 0 THEN "" ELSE "a" \o Rep(n - 1)

\* Texts a caller hands to the repository (the repository does not validate).
Texts == {Rep(MinTextLen), Rep(MaxTextLen)}

\* Option<T>
None == [some |-> FALSE]
Some(v) == [some |-> TRUE, val |-> v]
\* Option::unwrap_or
UnwrapOr(o, d) == IF o.some THEN o.val ELSE d

\* RepositoryError::NotFound(id)
NotFound(id) == [kind |-> "NotFound", id |-> id]

\* Result<T, E>
Ok(v) == [ok |-> TRUE, val |-> v]
Err(e) == [ok |-> FALSE, err |-> e]
\* The unit value of Result<()>.
Unit == "unit"

\* struct Todo
Todo(id, text, completed) == [id |-> id, text |-> text, completed |-> completed]
\* Todo::new: completed starts false.
TodoNew(id, text) == Todo(id, text, FALSE)
\* struct CreateTodo
CreateTodo(text) == [text |-> text]
\* struct UpdateTodo
UpdateTodo(text, completed) == [text |-> text, completed |-> completed]

\* The ids a caller asks for: the ids create can assign and one beyond them.
Ids == 1..(MaxCreates + 1)

\* The UpdateTodo payloads a caller hands to the repository.
UpdatePayloads ==
    {UpdateTodo(t, c) : t \in {None} \cup {Some(x) : x \in Texts},
                        c \in {None, Some(TRUE), Some(FALSE)}}

(***************************************************************************)
(* Validation and the ValidatedJson extractor.                             *)
(***************************************************************************)
\* StatusCode::BAD_REQUEST, CREATED, OK, NO_CONTENT, NOT_FOUND
BAD_REQUEST == 400
CREATED == 201
OK == 200
NO_CONTENT == 204
NOT_FOUND == 404

\* (variant: only the upper length rule is applied)
LengthOkNoMin(text) == Len(text) <= MaxTextLen
\* The two length rules of a text field: min = 1 and max = 100.
LengthOk(text) == Len(text) >= MinTextLen /\ Len(text) <= MaxTextLen

\* CreateTodo::validate
ValidateCreate(payload) == LengthOk(payload.text)
\* UpdateTodo::validate: the rules apply to a text that is present.
ValidateUpdate(payload) == payload.text.some => LengthOk(payload.text.val)

\* A request body: the bytes either decode to a value of the target type or
\* they do not (malformed JSON, wrong shape).
Body(decodes, value) == [decodes |-> decodes, value |-> value]

\* ValidatedJson::from_request: decode, then validate; either failure is a
\* rejection with status 400.  `valid` is value.validate() of the decoded
\* value, asked for only when the body decodes.
FromRequest(body, valid) ==
    IF ~body.decodes
    THEN Err([status |-> BAD_REQUEST, message |-> "Json parse error"])
    ELSE IF ~valid
         THEN Err([status |-> BAD_REQUEST, message |-> "Validation error"])
         ELSE Ok(body.value)

\* Texts of request bodies: the empty text, the shortest and the longest
\* valid text, and the text of 101 characters of the tests.
BodyTexts == {Rep(0), Rep(MinTextLen), Rep(MaxTextLen), Rep(MaxTextLen + 1)}

\* A body that does not decode, as in should_fail_created_todo_by_json_parse_error.
Malformed == Body(FALSE, Unit)

CreateBodies == {Malformed} \cup {Body(TRUE, CreateTodo(t)) : t \in BodyTexts}

UpdateBodies ==
    {Malformed} \cup
    {Body(TRUE, UpdateTodo(t, c)) : t \in {None} \cup {Some(x) : x \in BodyTexts},
                                    c \in {None, Some(TRUE), Some(FALSE)}}

\* The ids of request paths: the ids create can assign and one beyond them.
PathIds == 1..(MaxPosts + 1)

(***************************************************************************)
(* The response each handler builds from what the repository returned.     *)
(***************************************************************************)
\* (variant: the created record is answered with 200)
CreateResponseOk(todo) == [status |-> OK, body |-> todo]
\* create_todo: (StatusCode::CREATED, Json(todo))
CreateResponse(todo) == [status |-> CREATED, body |-> todo]
\* find_todo: .ok_or(StatusCode::NOT_FOUND)?, then (StatusCode::OK, Json(todo))
FindResponse(r) == IF r.ok THEN [status |-> OK, body |-> r.val] ELSE [status |-> NOT_FOUND]
\* all_todo: (StatusCode::OK, Json(todos))
AllResponse(todos) == [status |-> OK, body |-> todos]
\* (variant: a failed update is answered with 200 and no body)
UpdateResponseOk(r) == IF r.ok THEN [status |-> OK, body |-> r.val] ELSE [status |-> OK]
\* update_todo: .or(Err(StatusCode::NOT_FOUND))?, then (StatusCode::OK, Json(todo))
UpdateResponse(r) == IF r.ok THEN [status |-> OK, body |-> r.val] ELSE [status |-> NOT_FOUND]
\* delete_todo: .map(|_| StatusCode::NO_CONTENT).unwrap_or(StatusCode::NOT_FOUND)
DeleteResponse(r) == IF r.ok THEN [status |-> NO_CONTENT] ELSE [status |-> NOT_FOUND]

\* The response of the handler that made the repository call c and got r.
HandlerResponse(c, r) ==
    CASE c.kind = "create" -> CreateResponse(r.val)
      [] c.kind = "find" -> FindResponse(r)
      [] c.kind = "all" -> AllResponse(r.val)
      [] c.kind = "update" -> UpdateResponse(r)
      [] c.kind = "delete" -> DeleteResponse(r)

(***************************************************************************)
(* HashMap<i32, Todo>                                                      *)
(***************************************************************************)
\* HashMap::default()
EmptyStore == [k \in {} |-> Unit]
\* HashMap::len
StoreLen(s) == Cardinality(DOMAIN s)
\* (variant: an insert that keeps the value already stored under the key)
InsertKeep(s, id, todo) == [k \in DOMAIN s \cup {id} |-> IF k \in DOMAIN s THEN s[k] ELSE todo]
\* HashMap::insert: adds the key or overwrites the value stored under it.
Insert(s, id, todo) == [k \in DOMAIN s \cup {id} |-> IF k = id THEN todo ELSE s[k]]
\* (variant: a removal that leaves the map as it is)
RemoveNothing(s, id) == s
\* HashMap::remove
Remove(s, id) == [k \in DOMAIN s \ {id} |-> s[k]]

\* The orders in which HashMap::values may iterate: every permutation of the keys.
Orders(s) ==
    {o \in [1..StoreLen(s) -> DOMAIN s] : \A i, j \in 1..StoreLen(s) : i # j => o[i] # o[j]}

(***************************************************************************)
(* impl TodoRepository for TodoRepositoryForMemory.  Each operation holds  *)
(* the lock of the store from its first line to its return, so each is one *)
(* step: it maps the store to the new store and the returned Result.       *)
(***************************************************************************)
\* (variant: the id is the number of records stored)
NextIdLen(s) == StoreLen(s)
\* The id create assigns: (store.len() + 1) as i32.
NextId(s) == StoreLen(s) + 1

\* (variant: the record is stored under the key before the id it carries)
MemCreateMiskeyed(s, payload) ==
    LET id == NextId(s)
        todo == TodoNew(id, payload.text)
    IN  [store |-> Insert(s, id - 1, todo), res |-> Ok(todo)]

MemCreate(s, payload) ==
    LET id == NextId(s)
        todo == TodoNew(id, payload.text)
    IN  [store |-> Insert(s, id, todo), res |-> Ok(todo)]

MemFind(s, id) ==
    [store |-> s,
     res |-> IF id \in DOMAIN s THEN Ok(s[id]) ELSE Err(NotFound(id))]

\* (variant: the last value of the iteration is dropped)
MemAllShort(s, order) ==
    [store |-> s, res |-> Ok([i \in 1..(StoreLen(s) - 1) |-> s[order[i]]])]

MemAll(s, order) ==
    [store |-> s, res |-> Ok([i \in 1..StoreLen(s) |-> s[order[i]]])]

\* (variant: an absent completed is taken as false instead of the stored value)
MergeDefault(id, old, payload) ==
    Todo(id, UnwrapOr(payload.text, old.text), UnwrapOr(payload.completed, FALSE))

\* The record update builds from the stored one and the payload.
Merge(id, old, payload) ==
    Todo(id, UnwrapOr(payload.text, old.text), UnwrapOr(payload.completed, old.completed))

\* (variant: an update of an id that is not stored fails and yet stores a
\* record built from the payload)
MemUpdateInserting(s, id, payload) ==
    IF id \notin DOMAIN s
    THEN [store |-> Insert(s, id, Merge(id, TodoNew(id, ""), payload)),
          res |-> Err(NotFound(id))]
    ELSE LET todo == Merge(id, s[id], payload)
         IN  [store |-> Insert(s, id, todo), res |-> Ok(todo)]

MemUpdate(s, id, payload) ==
    IF id \notin DOMAIN s
    THEN [store |-> s, res |-> Err(NotFound(id))]
    ELSE LET todo == Merge(id, s[id], payload)
         IN  [store |-> Insert(s, id, todo), res |-> Ok(todo)]

MemDelete(s, id) ==
    IF id \notin DOMAIN s
    THEN [store |-> s, res |-> Err(NotFound(id))]
    ELSE [store |-> Remove(s, id), res |-> Ok(Unit)]

(***************************************************************************)
(* impl TodoRepository for TodoRepositoryForDb.  Each sqlx query is one    *)
(* round trip to the database and runs there as one statement; `fail`      *)
(* says that the round trip ends with a database error other than "no row" *)
(* (the statement then has no effect).                                     *)
(***************************************************************************)
\* sqlx::Error::RowNotFound, and an error of any other kind.
RowNotFound == "RowNotFound"
OtherDbError == "Io"
\* e.to_string()
to_string(e) == IF e = RowNotFound THEN "no rows returned" ELSE "error communicating with database"
\* RepositoryError::Unexpected(message)
Unexpected(message) == [kind |-> "Unexpected", message |-> message]
\* A sqlx::Error that `?` turns into the anyhow::Error as it is.
Sqlx(e) == [kind |-> "sqlx", error |-> e]

\* The closure of map_err in find and delete.
MapSqlxError(e, id) == IF e = RowNotFound THEN NotFound(id) ELSE Unexpected(to_string(e))

\* Executor::fetch_one on the rows a statement returns: the first row, or
\* RowNotFound when there is none.
FetchOne(rows) == IF rows = <<>> THEN Err(RowNotFound) ELSE Ok(rows[1])

\* select * from todos where id=$1
SelectById(tbl, id) == IF id \in DOMAIN tbl THEN <<tbl[id]>> ELSE <<>>

\* create: insert into todos (text, completed) values ($1, false) returning *
\* The id is the next value of the serial column.
DbCreate(tbl, serial, payload, fail) ==
    IF fail
    THEN [table |-> tbl, serial |-> serial, res |-> Err(Sqlx(OtherDbError))]
    ELSE LET row == Todo(serial + 1, payload.text, FALSE)
         IN  [table |-> Insert(tbl, serial + 1, row), serial |-> serial + 1, res |-> Ok(row)]

\* find: fetch_one of the select, with the error mapped.
DbFind(tbl, id, fail) ==
    LET r == IF fail THEN Err(OtherDbError) ELSE FetchOne(SelectById(tbl, id))
    IN  IF r.ok THEN r ELSE Err(MapSqlxError(r.err, id))

\* all: select * from todos, fetch_all; the rows come in no stated order.
DbAll(tbl, order, fail) ==
    IF fail THEN Err(Sqlx(OtherDbError))
    ELSE Ok([i \in 1..StoreLen(tbl) |-> tbl[order[i]]])

\* (variant: the write inserts the row when no row has the id)
DbUpdateWriteUpsert(tbl, id, payload, old, fail) ==
    IF fail
    THEN [table |-> tbl, res |-> Err(Sqlx(OtherDbError))]
    ELSE LET row == Merge(id, old, payload)
         IN  [table |-> Insert(tbl, id, row), res |-> Ok(row)]

\* The second round trip of update:
\* update todos set text = $1, completed = $2 where id=$3 returning *
\* with $1, $2 taken from the payload or from old_todo; fetch_one.
DbUpdateWrite(tbl, id, payload, old, fail) ==
    IF fail
    THEN [table |-> tbl, res |-> Err(Sqlx(OtherDbError))]
    ELSE LET row == Merge(id, old, payload)
             hit == id \in DOMAIN tbl
             after == IF hit THEN Insert(tbl, id, row) ELSE tbl
             r == FetchOne(IF hit THEN <<row>> ELSE <<>>)
         IN  [table |-> after, res |-> IF r.ok THEN r ELSE Err(Sqlx(r.err))]

\* delete: delete from todos where id=$1, execute.  execute returns the
\* number of rows affected and reports no error when that number is 0.
DbDelete(tbl, id, fail) ==
    IF fail
    THEN [table |-> tbl, res |-> Err(MapSqlxError(OtherDbError, id))]
    ELSE [table |-> Remove(tbl, id), res |-> Ok(Unit)]

\* The texts and payloads the calls on the database variant carry: an update
\* sets the text, or completed, or both.
RowTexts == {"a"}
RowPayloads ==
    {UpdateTodo(Some("b"), None), UpdateTodo(None, Some(TRUE)), UpdateTodo(Some("b"), Some(TRUE))}

\* The tasks that call the repository concurrently (one per request).
Tasks == {"t1", "t2"}
\* The ids asked for: the ids the serial column can give.
RowIds == 1..MaxSerial

(***************************************************************************)
(* impl LabelRepository for LabelRepositoryForDb.  create takes two round  *)
(* trips: the select of the name, then the insert.                         *)
(***************************************************************************)
\* struct Label
Label(id, name) == [id |-> id, name |-> name]
\* RepositoryError::Duplicate(id)
Duplicate(id) == [kind |-> "Duplicate", id |-> id]
\* The database error of an insert that breaks a unique constraint.
UniqueViolation == "UniqueViolation"

\* select * from labels where name = $1: the rows with the name, by id.
RECURSIVE RowsFrom(_, _, _)
RowsFrom(tbl, name, i) ==
    IF \A k \in DOMAIN tbl : k < i THEN <<>>
    ELSE IF i \in DOMAIN tbl /\ tbl[i].name = name
         THEN <<tbl[i]>> \o RowsFrom(tbl, name, i + 1)
         ELSE RowsFrom(tbl, name, i + 1)
SelectByName(tbl, name) == RowsFrom(tbl, name, 1)

\* Executor::fetch_optional on the rows a statement returns.
FetchOptional(rows) == IF rows = <<>> THEN None ELSE Some(rows[1])

\* Schema of the labels table: name text unique.  An insert of the name is
\* admitted when no row holds it.
UniqueName(tbl, name) == \A k \in DOMAIN tbl : tbl[k].name # name

\* (variant: the pre-check finds nothing whatever the table holds)
LabelCheckBlind(tbl, name, fail) ==
    IF fail THEN Err(Sqlx(OtherDbError)) ELSE Ok(Unit)

\* create, first round trip: the pre-check of the name.  Ok(Unit) says that
\* create goes on to its insert.
LabelCheck(tbl, name, fail) ==
    IF fail THEN Err(Sqlx(OtherDbError))
    ELSE LET optional_label == FetchOptional(SelectByName(tbl, name))
         IN  IF optional_label.some
             THEN Err(Duplicate(optional_label.val.id))
             ELSE Ok(Unit)

\* create, second round trip: insert into labels ( name ) values ($1)
\* returning *, fetch_one.  The serial column gives its next value before
\* the constraint is looked at, so a refused insert uses up an id.
LabelInsert(tbl, serial, name, fail) ==
    IF fail
    THEN [table |-> tbl, serial |-> serial, res |-> Err(Sqlx(OtherDbError))]
    ELSE IF ~UniqueName(tbl, name)
         THEN [table |-> tbl, serial |-> serial + 1, res |-> Err(Sqlx(UniqueViolation))]
         ELSE LET row == Label(serial + 1, name)
              IN  [table |-> Insert(tbl, serial + 1, row), serial |-> serial + 1,
                   res |-> Ok(row)]

\* all: select * from labels order by labels.id asc, fetch_all.
RECURSIVE RowsById(_, _)
RowsById(tbl, i) ==
    IF \A k \in DOMAIN tbl : k < i THEN <<>>
    ELSE IF i \in DOMAIN tbl THEN <<tbl[i]>> \o RowsById(tbl, i + 1)
         ELSE RowsById(tbl, i + 1)
LabelAll(tbl, fail) ==
    IF fail THEN Err(Sqlx(OtherDbError)) ELSE Ok(RowsById(tbl, 1))

\* delete: delete from labels where id=$1, execute, with the error mapped.
LabelDelete(tbl, id, fail) ==
    IF fail
    THEN [table |-> tbl, res |-> Err(MapSqlxError(OtherDbError, id))]
    ELSE [table |-> Remove(tbl, id), res |-> Ok(Unit)]

\* The names create is called with, and the ids delete is called with.
LabelNames == {"x", "y"}
LabelIds == 1..MaxLabelSerial

(***************************************************************************)
(* Arc<RwLock<TodoData>>: the allocation a repository value points to, its *)
(* lock, and the copies of a repository value.                             *)
(***************************************************************************)
\* Arc::default(): an allocation holding the empty map, unlocked.
RwLockNew == [data |-> EmptyStore, writers |-> {}, readers |-> {}]

\* TodoRepositoryForMemory::new: a repository value over a new allocation.
RepoNew(heap) ==
    [heap |-> Append(heap, RwLockNew), repo |-> [store |-> Len(heap) + 1]]

\* (variant: a copy gets an allocation of its own, with the map as it is)
RepoCloneDeep(heap, r) ==
    [heap |-> Append(heap, [heap[r.store] EXCEPT !.writers = {}, !.readers = {}]),
     repo |-> [store |-> Len(heap) + 1]]
\* #[derive(Clone)]: the only field is the Arc, whose clone points to the
\* same allocation.
RepoClone(heap, r) == [heap |-> heap, repo |-> [store |-> r.store]]

\* (variant: write() does not wait for the readers)
CanWriteOverReaders(l) == l.writers = {}
\* (variant: write() does not wait for another writer)
CanWriteBesideWriter(l) == l.readers = {}
\* RwLock::write returns when no guard of either kind is held.
CanWrite(l) == l.writers = {} /\ l.readers = {}
\* RwLock::read returns when no write guard is held.
CanRead(l) == l.writers = {}
\* The guards: taken by write() and read(), given back when dropped.
WriteGuard(l, t) == [l EXCEPT !.writers = @ \cup {t}]
ReadGuard(l, t) == [l EXCEPT !.readers = @ \cup {t}]
DropGuard(l, t) == [l EXCEPT !.writers = @ \ {t}, !.readers = @ \ {t}]

\* The operations that take write_store_ref; the others take read_store_ref.
WriteKinds == {"create", "update", "delete"}

\* create from the line after `let id = ..`: the record is built with the id
\* and inserted under it.
MemCreateAt(s, id, payload) ==
    LET todo == TodoNew(id, payload.text)
    IN  [store |-> Insert(s, id, todo), res |-> Ok(todo)]

\* The body of the operation of a call, on the map behind the guard.  f is
\* the frame of the call: the operation with its arguments and, for create,
\* the local id it has computed.
ApplyCall(s, f, order) ==
    CASE f.op.kind = "create" -> MemCreateAt(s, f.id, f.op.payload)
      [] f.op.kind = "find" -> MemFind(s, f.op.id)
      [] f.op.kind = "all" -> MemAll(s, order)
      [] f.op.kind = "update" -> MemUpdate(s, f.op.id, f.op.payload)
      [] f.op.kind = "delete" -> MemDelete(s, f.op.id)

\* The holders of a repository value: the one that made the first value with
\* new, and each task once it has taken a copy.
Main == "main"
Holders == {Main} \cup Tasks

\* The call of a task that is in no call.
NoCall == [repo |-> Main, op |-> [kind |-> "none"]]

\* The calls the tasks make on the shared repository; an update carries the
\* payload with no field.
SharedIds == 1..MaxStored
SharedCalls ==
    {[kind |-> "create", payload |-> CreateTodo("a")], [kind |-> "all"]}
    \cup {[kind |-> "find", id |-> id] : id \in SharedIds}
    \cup {[kind |-> "update", id |-> id, payload |-> UpdateTodo(None, None)] :
            id \in SharedIds}
    \cup {[kind |-> "delete", id |-> id] : id \in SharedIds}

(***************************************************************************)
(* State.                                                                  *)
(***************************************************************************)
VARIABLES
    store,      \* the HashMap behind the repository
    op,         \* the last repository call: its name and arguments
    res,        \* the Result the last repository call returned
    pre,        \* the store as the last call or request found it
    returned,   \* the ids returned by the create calls so far, in call order
    deletes,    \* whether a delete has succeeded so far
    deleted,    \* the ids deleted with no create since
    req,        \* the last HTTP request
    resp,       \* the response to it
    table,      \* the rows of the todos table, by id
    serial,     \* the last value the serial id column has given
    pc,         \* per task: "ready", or "update_write" between the two round trips of update
    call,       \* per task: the repository call it runs or has last run
    old,        \* per task: old_todo, the row update has read
    out,        \* per task: the Result its last call returned
    absent,     \* per task: the first statement of its call found no row with the id
    raced,      \* per task: a delete of the id ran between the read and the write of its update
    labels,     \* the rows of the labels table, by id
    lserial,    \* the last value the serial id column of labels has given
    lpc,        \* per task: "ready", or "create_insert" between the two round trips of create
    lcall,      \* per task: the label repository call it runs or has last run
    lout,       \* per task: the Result its last label call returned
    last,       \* the last statement run on the labels table: task, statement, failure
    lpre,       \* the labels table as that statement found it
    heap,       \* the Arc allocations: map, write guards held, read guards held
    repos,      \* per holder: its repository value, which points to an allocation
    tpc,        \* per task: "idle", "waiting" for the lock, or "locked" and in the body
    tcall,      \* per task, while in a call: the holder whose value it calls through, the operation, and the id create has computed
    tout        \* per task: the Result its last call returned

memVars == <<store, op, res, pre, returned, deletes, deleted>>
httpVars == <<req, resp>>
dbVars == <<table, serial, pc, call, old, out, absent, raced>>
labelVars == <<labels, lserial, lpc, lcall, lout, last, lpre>>
sharedVars == <<heap, repos, tpc, tcall, tout>>
sideVars == <<labelVars, sharedVars>>
vars == <<store, op, res, pre, returned, deletes, deleted, req, resp,
          table, serial, pc, call, old, out, absent, raced,
          labels, lserial, lpc, lcall, lout, last, lpre,
          heap, repos, tpc, tcall, tout>>

NoOp == [kind |-> "none"]

Init ==
    /\ store = EmptyStore
    /\ op = NoOp
    /\ res = Ok(Unit)
    /\ pre = EmptyStore
    /\ returned = <<>>
    /\ deletes = FALSE
    /\ deleted = {}
    /\ req = [method |-> "none"]
    /\ resp = [status |-> 0]
    /\ table = EmptyStore
    /\ serial = 0
    /\ pc = [t \in Tasks |-> "ready"]
    /\ call = [t \in Tasks |-> NoOp]
    /\ old = [t \in Tasks |-> Unit]
    /\ out = [t \in Tasks |-> Ok(Unit)]
    /\ absent = [t \in Tasks |-> FALSE]
    /\ raced = [t \in Tasks |-> FALSE]
    /\ labels = EmptyStore
    /\ lserial = 0
    /\ lpc = [t \in Tasks |-> "ready"]
    /\ lcall = [t \in Tasks |-> NoOp]
    /\ lout = [t \in Tasks |-> Ok(Unit)]
    /\ last = [task |-> "t1", stmt |-> "none", failed |-> FALSE]
    /\ lpre = EmptyStore
    /\ heap = RepoNew(<<>>).heap
    /\ repos = [h \in {Main} |-> RepoNew(<<>>).repo]
    /\ tpc = [t \in Tasks |-> "idle"]
    /\ tcall = [t \in Tasks |-> NoCall]
    /\ tout = [t \in Tasks |-> Ok(Unit)]

(***************************************************************************)
(* Repository calls on the in-memory variant.                              *)
(***************************************************************************)
RepoCreate(text) ==
    /\ Len(returned) < MaxCreates
    /\ LET r == MemCreate(store, CreateTodo(text))
       IN  /\ store' = r.store
           /\ res' = r.res
           /\ returned' = Append(returned, r.res.val.id)
    /\ op' = [kind |-> "create", payload |-> CreateTodo(text)]
    /\ pre' = store
    /\ deleted' = {}
    /\ UNCHANGED deletes

RepoFind(id) ==
    /\ LET r == MemFind(store, id)
       IN  /\ store' = r.store
           /\ res' = r.res
    /\ op' = [kind |-> "find", id |-> id]
    /\ pre' = store
    /\ UNCHANGED <<returned, deletes, deleted>>

RepoAll ==
    /\ \E order \in Orders(store) :
         LET r == MemAll(store, order)
         IN  /\ store' = r.store
             /\ res' = r.res
    /\ op' = [kind |-> "all"]
    /\ pre' = store
    /\ UNCHANGED <<returned, deletes, deleted>>

RepoUpdate(id, payload) ==
    /\ LET r == MemUpdate(store, id, payload)
       IN  /\ store' = r.store
           /\ res' = r.res
    /\ op' = [kind |-> "update", id |-> id, payload |-> payload]
    /\ pre' = store
    /\ UNCHANGED <<returned, deletes, deleted>>

RepoDelete(id) ==
    /\ LET r == MemDelete(store, id)
       IN  /\ store' = r.store
           /\ res' = r.res
           /\ deletes' = (deletes \/ r.res.ok)
           /\ deleted' = IF r.res.ok THEN deleted \cup {id} ELSE deleted
    /\ op' = [kind |-> "delete", id |-> id]
    /\ pre' = store
    /\ UNCHANGED returned

\* The calls as a test or another caller issues them on the repository.
Create(text) == RepoCreate(text) /\ UNCHANGED <<httpVars, dbVars, sideVars>>
Find(id) == RepoFind(id) /\ UNCHANGED <<httpVars, dbVars, sideVars>>
All == RepoAll /\ UNCHANGED <<httpVars, dbVars, sideVars>>
Update(id, payload) == RepoUpdate(id, payload) /\ UNCHANGED <<httpVars, dbVars, sideVars>>
Delete(id) == RepoDelete(id) /\ UNCHANGED <<httpVars, dbVars, sideVars>>

Next ==
    \/ \E text \in Texts : Create(text)
    \/ \E id \in Ids : Find(id)
    \/ All
    \/ \E id \in Ids, payload \in UpdatePayloads : Update(id, payload)
    \/ \E id \in Ids : Delete(id)

Spec == Init /\ [][Next]_vars

(***************************************************************************)
(* HTTP handlers over the in-memory repository.  A handler runs its        *)
(* extractors first; the repository is called only when they all succeed.  *)
(***************************************************************************)
\* A request rejected by an extractor: the handler body does not run.
Rejected(rejection) ==
    /\ resp' = [status |-> rejection.status, body |-> rejection.message]
    /\ op' = NoOp
    /\ res' = Ok(Unit)
    /\ pre' = store
    /\ UNCHANGED <<store, returned, deletes, deleted>>

\* create_todo: POST /todos
PostTodo(body) ==
    /\ UNCHANGED <<dbVars, sideVars>>
    /\ req' = [method |-> "POST", body |-> body]
    /\ LET e == FromRequest(body, ValidateCreate(body.value))
       IN  IF ~e.ok
           THEN Rejected(e.err)
           ELSE /\ Len(returned) < MaxPosts
                /\ RepoCreate(e.val.text)
                /\ resp' = CreateResponse(res'.val)

\* find_todo: GET /todos/:id
GetTodo(id) ==
    /\ UNCHANGED <<dbVars, sideVars>>
    /\ req' = [method |-> "GET", id |-> id]
    /\ RepoFind(id)
    /\ resp' = FindResponse(res')

\* all_todo: GET /todos
GetTodos ==
    /\ UNCHANGED <<dbVars, sideVars>>
    /\ req' = [method |-> "GET"]
    /\ RepoAll
    /\ resp' = AllResponse(res'.val)

\* update_todo: PATCH /todos/:id
PatchTodo(id, body) ==
    /\ UNCHANGED <<dbVars, sideVars>>
    /\ req' = [method |-> "PATCH", id |-> id, body |-> body]
    /\ LET e == FromRequest(body, ValidateUpdate(body.value))
       IN  IF ~e.ok
           THEN Rejected(e.err)
           ELSE /\ RepoUpdate(id, e.val)
                /\ resp' = UpdateResponse(res')

\* delete_todo: DELETE /todos/:id
DeleteTodo(id) ==
    /\ UNCHANGED <<dbVars, sideVars>>
    /\ req' = [method |-> "DELETE", id |-> id]
    /\ RepoDelete(id)
    /\ resp' = DeleteResponse(res')

NextHttp ==
    \/ \E body \in CreateBodies : PostTodo(body)
    \/ \E id \in PathIds : GetTodo(id)
    \/ GetTodos
    \/ \E id \in PathIds, body \in UpdateBodies : PatchTodo(id, body)
    \/ \E id \in PathIds : DeleteTodo(id)

SpecHttp == Init /\ [][NextHttp]_vars

(***************************************************************************)
(* Concurrent calls on the database variant.  A task that is ready starts  *)
(* a call, whose first round trip runs in the same step; update then waits *)
(* in "update_write" for its second round trip, and other tasks run in     *)
(* between.                                                                *)
(***************************************************************************)
\* A call that returns after one round trip.
Return(t, c, r, noRow) ==
    /\ pc[t] = "ready"
    /\ call' = [call EXCEPT ![t] = c]
    /\ out' = [out EXCEPT ![t] = r]
    /\ absent' = [absent EXCEPT ![t] = noRow]
    /\ old' = [old EXCEPT ![t] = Unit]
    /\ UNCHANGED pc

CallCreate(t, text, fail) ==
    /\ serial < MaxSerial
    /\ LET r == DbCreate(table, serial, CreateTodo(text), fail)
       IN  /\ table' = r.table
           /\ serial' = r.serial
           /\ Return(t, [kind |-> "create", payload |-> CreateTodo(text)], r.res, FALSE)
    /\ raced' = [raced EXCEPT ![t] = FALSE]
    /\ UNCHANGED <<memVars, httpVars, sideVars>>

CallFind(t, id, fail) ==
    /\ Return(t, [kind |-> "find", id |-> id], DbFind(table, id, fail),
              ~fail /\ id \notin DOMAIN table)
    /\ raced' = [raced EXCEPT ![t] = FALSE]
    /\ UNCHANGED <<table, serial, memVars, httpVars, sideVars>>

CallAll(t, fail) ==
    /\ \E order \in Orders(table) :
         Return(t, [kind |-> "all"], DbAll(table, order, fail), FALSE)
    /\ raced' = [raced EXCEPT ![t] = FALSE]
    /\ UNCHANGED <<table, serial, memVars, httpVars, sideVars>>

\* update, first round trip: self.find(id).await?
CallUpdate(t, id, payload, fail) ==
    /\ pc[t] = "ready"
    /\ LET r == DbFind(table, id, fail)
       IN  IF r.ok
           THEN /\ pc' = [pc EXCEPT ![t] = "update_write"]
                /\ old' = [old EXCEPT ![t] = r.val]
                /\ out' = [out EXCEPT ![t] = Ok(Unit)]
           ELSE /\ out' = [out EXCEPT ![t] = r]
                /\ old' = [old EXCEPT ![t] = Unit]
                /\ UNCHANGED pc
    /\ call' = [call EXCEPT ![t] = [kind |-> "update", id |-> id, payload |-> payload]]
    /\ absent' = [absent EXCEPT ![t] = ~fail /\ id \notin DOMAIN table]
    /\ raced' = [raced EXCEPT ![t] = FALSE]
    /\ UNCHANGED <<table, serial, memVars, httpVars, sideVars>>

\* update, second round trip.
UpdateWrite(t, fail) ==
    /\ pc[t] = "update_write"
    /\ LET r == DbUpdateWrite(table, call[t].id, call[t].payload, old[t], fail)
       IN  /\ table' = r.table
           /\ out' = [out EXCEPT ![t] = r.res]
    /\ pc' = [pc EXCEPT ![t] = "ready"]
    /\ UNCHANGED <<serial, call, old, absent, raced, memVars, httpVars, sideVars>>

CallDelete(t, id, fail) ==
    /\ LET r == DbDelete(table, id, fail)
       IN  /\ table' = r.table
           /\ Return(t, [kind |-> "delete", id |-> id], r.res,
                     ~fail /\ id \notin DOMAIN table)
    /\ raced' = [u \in Tasks |->
                   IF u = t THEN FALSE
                   ELSE raced[u] \/ (~fail /\ pc[u] = "update_write" /\ call[u].id = id)]
    /\ UNCHANGED <<serial, memVars, httpVars, sideVars>>

NextDb ==
    \E t \in Tasks, fail \in BOOLEAN :
        \/ \E text \in RowTexts : CallCreate(t, text, fail)
        \/ \E id \in RowIds : CallFind(t, id, fail)
        \/ CallAll(t, fail)
        \/ \E id \in RowIds, payload \in RowPayloads : CallUpdate(t, id, payload, fail)
        \/ UpdateWrite(t, fail)
        \/ \E id \in RowIds : CallDelete(t, id, fail)

SpecDb == Init /\ [][NextDb]_vars

(***************************************************************************)
(* Concurrent calls on the database variant of the label repository.  The  *)
(* first round trip of a call runs in the step that starts it; create then *)
(* waits in "create_insert" for its insert, and other tasks run in         *)
(* between.                                                                *)
(***************************************************************************)
\* The inserts the calls under way may still issue.
InsertsPending == Cardinality({t \in Tasks : lpc[t] = "create_insert"})

\* What every statement of a task leaves behind: the statement and the
\* table as it found it.
Statement(t, stmt, fail) ==
    /\ last' = [task |-> t, stmt |-> stmt, failed |-> fail]
    /\ lpre' = labels

LabelCallCreate(t, name, fail) ==
    /\ lpc[t] = "ready"
    /\ LabelCheck(labels, name, fail).ok => lserial + InsertsPending < MaxLabelSerial
    /\ LET r == LabelCheck(labels, name, fail)
       IN  /\ lout' = [lout EXCEPT ![t] = r]
           /\ lpc' = [lpc EXCEPT ![t] = IF r.ok THEN "create_insert" ELSE "ready"]
    /\ lcall' = [lcall EXCEPT ![t] = [kind |-> "create", name |-> name]]
    /\ Statement(t, "select", fail)
    /\ UNCHANGED <<labels, lserial>>
    /\ UNCHANGED <<memVars, httpVars, dbVars, sharedVars>>

LabelCreateInsert(t, fail) ==
    /\ lpc[t] = "create_insert"
    /\ LET r == LabelInsert(labels, lserial, lcall[t].name, fail)
       IN  /\ labels' = r.table
           /\ lserial' = r.serial
           /\ lout' = [lout EXCEPT ![t] = r.res]
    /\ lpc' = [lpc EXCEPT ![t] = "ready"]
    /\ Statement(t, "insert", fail)
    /\ UNCHANGED lcall
    /\ UNCHANGED <<memVars, httpVars, dbVars, sharedVars>>

LabelCallAll(t, fail) ==
    /\ lpc[t] = "ready"
    /\ lout' = [lout EXCEPT ![t] = LabelAll(labels, fail)]
    /\ lcall' = [lcall EXCEPT ![t] = [kind |-> "all"]]
    /\ Statement(t, "all", fail)
    /\ UNCHANGED <<labels, lserial, lpc>>
    /\ UNCHANGED <<memVars, httpVars, dbVars, sharedVars>>

LabelCallDelete(t, id, fail) ==
    /\ lpc[t] = "ready"
    /\ LET r == LabelDelete(labels, id, fail)
       IN  /\ labels' = r.table
           /\ lout' = [lout EXCEPT ![t] = r.res]
    /\ lcall' = [lcall EXCEPT ![t] = [kind |-> "delete", id |-> id]]
    /\ Statement(t, "delete", fail)
    /\ UNCHANGED <<lserial, lpc>>
    /\ UNCHANGED <<memVars, httpVars, dbVars, sharedVars>>

NextLabel ==
    \E t \in Tasks, fail \in BOOLEAN :
        \/ \E name \in LabelNames : LabelCallCreate(t, name, fail)
        \/ LabelCreateInsert(t, fail)
        \/ LabelCallAll(t, fail)
        \/ \E id \in LabelIds : LabelCallDelete(t, id, fail)

SpecLabel == Init /\ [][NextLabel]_vars

(***************************************************************************)
(* Concurrent calls on copies of one in-memory repository.  A call waits   *)
(* for the lock and then runs its body behind the guard, which is dropped  *)
(* when the body returns.                                                  *)
(***************************************************************************)
\* The allocation the repository copy of task t's call points to.
Cell(t) == repos[tcall[t].repo].store

\* The creates that have started and not yet inserted.
CreatesPending ==
    Cardinality({t \in Tasks : tpc[t] # "idle" /\ tcall[t].op.kind = "create"})

\* repository.clone(): task t takes a copy of the repository value h holds.
CloneRepo(t, h) ==
    /\ t \notin DOMAIN repos
    /\ h \in DOMAIN repos
    /\ LET r == RepoClone(heap, repos[h])
       IN  /\ heap' = r.heap
           /\ repos' = [k \in DOMAIN repos \cup {t} |-> IF k = t THEN r.repo ELSE repos[k]]
    /\ UNCHANGED <<tpc, tcall, tout>>
    /\ UNCHANGED <<memVars, httpVars, dbVars, labelVars>>

\* Task t calls operation c through the repository value h holds: its own
\* copy, or the first value by reference.
StartCall(t, h, c) ==
    /\ tpc[t] = "idle"
    /\ h \in DOMAIN repos \cap {Main, t}
    /\ c.kind = "create" =>
         \A k \in 1..Len(heap) : StoreLen(heap[k].data) + CreatesPending < MaxStored
    /\ tcall' = [tcall EXCEPT ![t] = [repo |-> h, op |-> c]]
    /\ tpc' = [tpc EXCEPT ![t] = "waiting"]
    /\ tout' = [tout EXCEPT ![t] = Ok(Unit)]
    /\ UNCHANGED <<heap, repos>>
    /\ UNCHANGED <<memVars, httpVars, dbVars, labelVars>>

\* write_store_ref / read_store_ref
Acquire(t) ==
    /\ tpc[t] = "waiting"
    /\ IF tcall[t].op.kind \in WriteKinds
       THEN /\ CanWrite(heap[Cell(t)])
            /\ heap' = [heap EXCEPT ![Cell(t)] = WriteGuard(@, t)]
       ELSE /\ CanRead(heap[Cell(t)])
            /\ heap' = [heap EXCEPT ![Cell(t)] = ReadGuard(@, t)]
    /\ tpc' = [tpc EXCEPT ![t] = "locked"]
    /\ UNCHANGED <<repos, tcall, tout>>
    /\ UNCHANGED <<memVars, httpVars, dbVars, labelVars>>

\* create, behind the guard: let id = (store.len() + 1) as i32
CreateId(t) ==
    /\ tpc[t] = "locked"
    /\ tcall[t].op.kind = "create"
    /\ "id" \notin DOMAIN tcall[t]
    /\ tcall' = [tcall EXCEPT ![t] =
                   [repo |-> @.repo, op |-> @.op, id |-> NextId(heap[Cell(t)].data)]]
    /\ UNCHANGED <<heap, repos, tpc, tout>>
    /\ UNCHANGED <<memVars, httpVars, dbVars, labelVars>>

\* The body of the operation (for create, what follows the id), behind the
\* guard, up to its return, where the guard is dropped.
Run(t) ==
    /\ tpc[t] = "locked"
    /\ tcall[t].op.kind = "create" => "id" \in DOMAIN tcall[t]
    /\ \E order \in IF tcall[t].op.kind = "all" THEN Orders(heap[Cell(t)].data) ELSE {<<>>} :
         LET r == ApplyCall(heap[Cell(t)].data, tcall[t], order)
         IN  /\ heap' = [heap EXCEPT ![Cell(t)] = DropGuard([@ EXCEPT !.data = r.store], t)]
             /\ tout' = [tout EXCEPT ![t] = r.res]
    /\ tpc' = [tpc EXCEPT ![t] = "idle"]
    /\ tcall' = [tcall EXCEPT ![t] = NoCall]
    /\ UNCHANGED repos
    /\ UNCHANGED <<memVars, httpVars, dbVars, labelVars>>

NextShared ==
    \/ \E t \in Tasks, h \in Holders : CloneRepo(t, h)
    \/ \E t \in Tasks, h \in Holders, c \in SharedCalls : StartCall(t, h, c)
    \/ \E t \in Tasks : Acquire(t)
    \/ \E t \in Tasks : CreateId(t)
    \/ \E t \in Tasks : Run(t)

SpecShared == Init /\ [][NextShared]_vars

(***************************************************************************)
(* Properties of the in-memory variant (specification Spec).               *)
(***************************************************************************)
\* C1: after create(text), in any state of the store, find(returned.id)
\* returns Ok with the record create returned, which carries the given text
\* and completed = false.
C1_CreateThenFind ==
    op.kind = "create" =>
        LET f == MemFind(store, res.val.id).res
        IN  /\ res.ok /\ f.ok
            /\ f.val = res.val
            /\ f.val.text = op.payload.text
            /\ f.val.completed = FALSE
\* A create of a text of maximal length on a store that has seen deletions
\* and still holds records.
C1_Witness ==
    /\ op.kind = "create"
    /\ deletes
    /\ pre # EmptyStore
    /\ Len(op.payload.text) = MaxTextLen
    /\ res.ok

\* C2: the id create returns is the id of no record stored at the time of
\* the call.
C2_CreateIdFresh ==
    op.kind = "create" => res.val.id \notin DOMAIN pre

\* C3: create leaves every record stored before the call present and
\* unchanged.
C3_CreateKeepsRecords ==
    op.kind = "create" =>
        \A k \in DOMAIN pre : k \in DOMAIN store /\ store[k] = pre[k]

\* C5: update on a stored id returns and stores the merge of the payload
\* over the stored record: each field is the payload's when present and the
\* stored one when absent; the id is unchanged.
C5_UpdateMerges ==
    (op.kind = "update" /\ op.id \in DOMAIN pre) =>
        /\ res.ok
        /\ res.val.id = op.id
        /\ res.val.text =
             (IF op.payload.text.some THEN op.payload.text.val ELSE pre[op.id].text)
        /\ res.val.completed =
             (IF op.payload.completed.some THEN op.payload.completed.val
              ELSE pre[op.id].completed)
        /\ op.id \in DOMAIN store
        /\ store[op.id] = res.val
\* update(id, {text: None, completed: Some(true)}) on a record that is not
\* completed: the text is kept and completed is set.
C5_Witness ==
    /\ op.kind = "update"
    /\ op.id \in DOMAIN pre
    /\ op.payload = UpdateTodo(None, Some(TRUE))
    /\ pre[op.id] = Todo(op.id, Rep(MaxTextLen), FALSE)
    /\ store[op.id] = Todo(op.id, Rep(MaxTextLen), TRUE)

\* C6: an id deleted with no create since is not found: find(id) and a
\* second delete(id) both fail with NotFound(id).
C6_DeletedIsNotFound ==
    \A id \in deleted :
        /\ MemFind(store, id).res = Err(NotFound(id))
        /\ MemDelete(store, id).res = Err(NotFound(id))
        /\ (op.kind \in {"find", "delete"} /\ op.id = id /\ pre = store)
              => res = Err(NotFound(id))
\* A second delete of a deleted id has run.
C6_Witness ==
    /\ op.kind = "delete"
    /\ op.id \in deleted
    /\ ~res.ok
    /\ store # EmptyStore

\* C8: all() returns the empty sequence when nothing was created, and after
\* N creates with no delete it returns N records, one per created id.
C8_AllReturnsEveryRecord ==
    op.kind = "all" =>
        /\ res.ok
        /\ (returned = <<>> => res.val = <<>>)
        /\ (~deletes =>
              /\ Len(res.val) = Len(returned)
              /\ {res.val[i].id : i \in 1..Len(res.val)} =
                   {returned[i] : i \in 1..Len(returned)}
              /\ \A i, j \in 1..Len(res.val) : i # j => res.val[i].id # res.val[j].id)
\* all() after several creates and an update, with no delete.
C8_Witness ==
    /\ op.kind = "all"
    /\ ~deletes
    /\ Len(returned) >= 2
    /\ \E k \in DOMAIN store : store[k].completed

\* C20: create assigns the id (number of records stored at the call) + 1;
\* so from the empty store, while no delete has succeeded, the k-th create
\* returns the id k and the ids returned are 1..N in increasing order.
C20_CreateIdIsLenPlusOne ==
    /\ op.kind = "create" =>
         res.ok /\ res.val.id = Cardinality(DOMAIN pre) + 1
    /\ ~deletes =>
         /\ \A k \in 1..Len(returned) : returned[k] = k
         /\ DOMAIN store = 1..Len(returned)
\* The third create in a row with no delete has returned the id 3.
C20_Witness ==
    /\ op.kind = "create"
    /\ ~deletes
    /\ Len(returned) = 3
    /\ res.val.id = 3
    /\ Cardinality(DOMAIN pre) = 2

\* C21: update(id, payload) and delete(id) on an id that is not stored fail
\* with NotFound(id) and leave the map exactly as it was (update inserts no
\* record for the id); find and all never change the map.
C21_FailureLeavesStore ==
    /\ (op.kind \in {"update", "delete"} /\ op.id \notin DOMAIN pre) =>
         res = Err(NotFound(op.id)) /\ store = pre
    /\ op.kind \in {"find", "all"} => store = pre
\* An update that sets both fields has failed on an id that is not stored
\* while other ids are.
C21_Witness ==
    /\ op.kind = "update"
    /\ op.id \notin DOMAIN pre
    /\ pre # EmptyStore
    /\ op.payload.text.some /\ op.payload.completed.some
    /\ ~res.ok

\* C22: in every state each key k of the map is mapped to a record whose id
\* is k; update never changes the set of keys; delete(id) removes exactly
\* the key id and leaves every other record as it was.
C22_KeyIsRecordId ==
    /\ \A k \in DOMAIN store : store[k].id = k
    /\ op.kind = "update" => DOMAIN store = DOMAIN pre
    /\ op.kind = "delete" =>
         /\ DOMAIN store = DOMAIN pre \ {op.id}
         /\ \A k \in DOMAIN store : store[k] = pre[k]
\* A delete has removed the first of three records, of which another had
\* been updated.
C22_Witness ==
    /\ op.kind = "delete"
    /\ op.id = 1
    /\ DOMAIN pre = {1, 2, 3}
    /\ DOMAIN store = {2, 3}
    /\ pre[2].completed

(***************************************************************************)
(* Properties of the handlers (specification SpecHttp).                    *)
(***************************************************************************)
\* The text a request body carries, when it decodes and carries one.
BodyText(r) ==
    IF r.method = "POST" THEN Some(r.body.value.text)
    ELSE IF r.method = "PATCH" THEN r.body.value.text
    ELSE None

\* C4: a create or update request whose text has length 0 or more than 100
\* is answered with 400, the repository is not called and the store is as
\* it was; a request whose text has length 1..100 passes validation and
\* reaches the repository.
C4_InvalidTextRejected ==
    (req.method \in {"POST", "PATCH"} /\ req.body.decodes /\ BodyText(req).some) =>
        LET n == Len(BodyText(req).val)
        IN  /\ (n = 0 \/ n > 100) =>
                 /\ resp.status = 400
                 /\ op = NoOp
                 /\ store = pre
            /\ (n >= 1 /\ n <= 100) =>
                 /\ resp.status # 400
                 /\ op.kind = (IF req.method = "POST" THEN "create" ELSE "update")
\* A PATCH with an empty text on a stored id, rejected.
C4_Witness ==
    /\ req.method = "PATCH"
    /\ req.body.decodes
    /\ req.body.value.text = Some("")
    /\ req.id \in DOMAIN store
    /\ resp.status = 400

\* C15: POST /todos with a valid body is answered with 201 and the created
\* record as body, and the store holds that record; on an empty store the
\* body is the record with id 1, the given text and completed = false.
C15_PostCreates ==
    (/\ req.method = "POST"
     /\ req.body.decodes
     /\ Len(req.body.value.text) >= 1
     /\ Len(req.body.value.text) <= 100) =>
        /\ resp.status = 201
        /\ resp.body = res.val
        /\ resp.body.text = req.body.value.text
        /\ resp.body.id \in DOMAIN store
        /\ store[resp.body.id] = resp.body
        /\ pre = EmptyStore => resp.body = Todo(1, req.body.value.text, FALSE)
\* A POST of a text of 100 characters on the empty store has been answered.
C15_Witness ==
    /\ req.method = "POST"
    /\ pre = EmptyStore
    /\ resp.status = 201
    /\ resp.body = Todo(1, Rep(100), FALSE)
    /\ store = Insert(EmptyStore, 1, resp.body)

\* C17: PATCH /todos/{id} with a body that is malformed or breaks a length
\* rule is answered with 400 whether or not the id is stored, and the store
\* is as it was; with a valid body it is answered with 404 when the id is
\* not stored, and with 200 and the updated record when it is.
C17_PatchAnswers ==
    req.method = "PATCH" =>
        LET invalid ==
                \/ ~req.body.decodes
                \/ /\ req.body.value.text.some
                   /\ \/ Len(req.body.value.text.val) = 0
                      \/ Len(req.body.value.text.val) > 100
        IN  IF invalid
            THEN resp.status = 400 /\ store = pre /\ op = NoOp
            ELSE IF req.id \notin DOMAIN pre
                 THEN resp.status = 404 /\ store = pre
                 ELSE /\ resp.status = 200
                      /\ resp.body = Merge(req.id, pre[req.id], req.body.value)
                      /\ store = Insert(pre, req.id, resp.body)
\* A malformed PATCH on an id that is not stored, while other ids are, has
\* been answered with 400.
C17_Witness ==
    /\ req.method = "PATCH"
    /\ ~req.body.decodes
    /\ req.id \notin DOMAIN store
    /\ store # EmptyStore
    /\ resp.status = 400

(***************************************************************************)
(* Properties of the database variant (specification SpecDb).              *)
(***************************************************************************)
\* C7: find, update and delete on an id that has no row each return
\* Err(NotFound(id)).
C7_NoRowIsNotFound ==
    \A t \in Tasks :
        (pc[t] = "ready" /\ call[t].kind \in {"find", "update", "delete"} /\ absent[t]) =>
            out[t] = Err(NotFound(call[t].id))

\* C9: the write of a successful update leaves each field its payload omits
\* as the row held it, whatever other updates of the id ran since the
\* update's read; so of two concurrent updates setting disjoint fields, the
\* later write keeps the field the earlier one set.
C9_OmittedFieldKept ==
    [][\A t \in Tasks :
         (pc[t] = "update_write" /\ pc'[t] = "ready" /\ out'[t].ok) =>
             LET id == call[t].id
                 payload == call[t].payload
             IN  /\ ~payload.text.some => table'[id].text = table[id].text
                 /\ ~payload.completed.some => table'[id].completed = table[id].completed
      ]_vars

\* C10: an update whose row a delete removed between its read and its write
\* returns a failure, and the row stays deleted.
C10_RacedUpdateFails ==
    \A t \in Tasks :
        (pc[t] = "ready" /\ call[t].kind = "update" /\ raced[t]) =>
            /\ ~out[t].ok
            /\ call[t].id \notin DOMAIN table
\* The write of such an update has run and found no row.
C10_Witness ==
    \E t \in Tasks :
        /\ pc[t] = "ready"
        /\ call[t].kind = "update"
        /\ raced[t]
        /\ out[t] = Err(Sqlx(RowNotFound))

\* C13: every failure a call of the repository returns is one of
\* NotFound(id), Duplicate(id) and Unexpected(message); so a database error
\* other than "no row" is returned as Unexpected, whatever the operation.
C13_FailureIsRepositoryError ==
    \A t \in Tasks :
        (pc[t] = "ready" /\ ~out[t].ok) =>
            out[t].err.kind \in {"NotFound", "Duplicate", "Unexpected"}

\* C14: the handlers of find, update and delete answer 404 exactly when the
\* repository call failed with NotFound: a failure of another kind is not
\* answered with 404, and neither is a success.
C14_NotFoundOnlyForNotFound ==
    \A t \in Tasks :
        (pc[t] = "ready" /\ call[t].kind \in {"find", "update", "delete"}) =>
            (HandlerResponse(call[t], out[t]).status = 404
                <=> (~out[t].ok /\ out[t].err.kind = "NotFound"))

\* C16: DELETE /todos/{id} answers 404 and leaves the rows as they are when
\* the id is not stored (so DELETE /todos/1 on an empty store answers 404),
\* and an answer of 204 says that the row is removed.
C16_DeleteAnswers ==
    \A t \in Tasks :
        (pc[t] = "ready" /\ call[t].kind = "delete") =>
            /\ absent[t] => HandlerResponse(call[t], out[t]).status = 404
            /\ HandlerResponse(call[t], out[t]).status = 204 =>
                 call[t].id \notin DOMAIN table

(***************************************************************************)
(* Properties of the label repository, database variant (SpecLabel).       *)
(***************************************************************************)
\* The ids of the rows of a labels table that hold the name.
Holding(tbl, name) == {k \in DOMAIN tbl : tbl[k].name = name}

\* C11: a create whose pre-check finds the name in the table fails with
\* Duplicate carrying the id of the row that holds it and inserts no row; a
\* create whose pre-check finds the name absent goes on to its insert, and
\* the insert of a name still absent returns Ok with a new label of that
\* name, which the table then holds.  These are the steps of creates that
\* run one after the other.
C11_DuplicateNameRefused ==
    LET t == last.task
    IN  /\ (last.stmt = "select" /\ ~last.failed) =>
              IF Holding(lpre, lcall[t].name) # {}
              THEN /\ \A k \in Holding(lpre, lcall[t].name) : lout[t] = Err(Duplicate(k))
                   /\ lpc[t] = "ready"
                   /\ labels = lpre
              ELSE lpc[t] = "create_insert" /\ labels = lpre
        /\ (last.stmt = "insert" /\ ~last.failed /\ Holding(lpre, lcall[t].name) = {}) =>
              /\ lout[t].ok
              /\ lout[t].val.name = lcall[t].name
              /\ lout[t].val.id \notin DOMAIN lpre
              /\ labels = Insert(lpre, lout[t].val.id, lout[t].val)
\* A create of a name that a row other than the first holds has been
\* refused, while no other call was under way.
C11_Witness ==
    /\ last.stmt = "select"
    /\ \A u \in Tasks : lpc[u] = "ready"
    /\ lout[last.task] = Err(Duplicate(2))
    /\ 2 \in DOMAIN labels
    /\ labels[2].name = lcall[last.task].name

\* C12: in every state at most one row holds a name, and every create that
\* ends without inserting because a row holds its name fails with Duplicate
\* carrying the id of that row.
C12_OneRowElseDuplicate ==
    /\ \A j, k \in DOMAIN labels : labels[j].name = labels[k].name => j = k
    /\ \A t \in Tasks :
         (/\ last.task = t
          /\ last.stmt \in {"select", "insert"}
          /\ ~last.failed
          /\ Holding(lpre, lcall[t].name) # {}) =>
              \E k \in Holding(lpre, lcall[t].name) : lout[t] = Err(Duplicate(k))

(***************************************************************************)
(* Properties of the shared in-memory repository (SpecShared).             *)
(***************************************************************************)
\* C18: while a task holds the write lock of the store no other task holds
\* its read or write lock (several tasks may hold the read lock together);
\* create, update and delete run from their first line to their return
\* under the write lock, find and all under the read lock, and the map
\* changes only in a step of a task that holds the write lock.
C18_WriterExcludes ==
    /\ [](/\ \A k \in 1..Len(heap) :
               heap[k].writers # {} =>
                   Cardinality(heap[k].writers) = 1 /\ heap[k].readers = {}
          /\ \A t \in Tasks :
               IF tpc[t] = "locked"
               THEN IF tcall[t].op.kind \in {"create", "update", "delete"}
                    THEN t \in heap[Cell(t)].writers
                    ELSE t \in heap[Cell(t)].readers
               ELSE \A k \in 1..Len(heap) :
                        t \notin heap[k].writers \cup heap[k].readers)
    /\ [][\A k \in 1..Len(heap) :
            heap'[k].data # heap[k].data =>
                \E t \in Tasks : heap[k].writers = {t} /\ tpc[t] = "locked"]_vars
\* A create is in its body behind the write guard, on a store that holds a
\* record, and the other task waits for the read lock.
C18_Witness ==
    \E t, u \in Tasks :
        /\ tpc[t] = "locked"
        /\ tcall[t].op.kind = "create"
        /\ heap[Cell(t)].data # EmptyStore
        /\ tpc[u] = "waiting"
        /\ tcall[u].op.kind = "find"
        /\ Cell(u) = Cell(t)

\* C19: all copies of the repository refer to one store: in every state
\* find of any id and all return the same through every copy.
C19_CopiesShareStore ==
    \A i, j \in DOMAIN repos :
        LET si == heap[repos[i].store].data
            sj == heap[repos[j].store].data
        IN  /\ \A id \in 1..(MaxStored + 1) : MemFind(si, id).res = MemFind(sj, id).res
            /\ Orders(si) = Orders(sj)
            /\ \A order \in Orders(si) : MemAll(si, order).res = MemAll(sj, order).res
\* Every task has its copy; one task is in find(2) and the other in all,
\* each through its own copy, and through every copy find(2) returns the
\* record of the second create.
C19_Witness ==
    /\ DOMAIN repos = Holders
    /\ \E t, u \in Tasks :
         /\ tpc[t] = "locked" /\ tcall[t] = [repo |-> t, op |-> [kind |-> "find", id |-> 2]]
         /\ tpc[u] = "locked" /\ tcall[u] = [repo |-> u, op |-> [kind |-> "all"]]
         /\ \A h \in Holders :
              MemFind(heap[repos[h].store].data, 2).res = Ok(Todo(2, "a", FALSE))

\* C23: create is atomic.  Between the step in which a create reads the
\* size of the map and computes its id and the step in which it inserts, no
\* other create or delete changes the map, so the id is still size + 1 at
\* the insert; and on a map that has lost no record (its keys are 1..n) the
\* insert returns an id no record holds, adds exactly that key and leaves
\* the other records as they are.  So N concurrent creates return N distinct
\* ids and add N records.
C23_CreateIsAtomic ==
    /\ [](\A t \in Tasks :
            (tpc[t] = "locked" /\ tcall[t].op.kind = "create" /\ "id" \in DOMAIN tcall[t]) =>
                tcall[t].id = Cardinality(DOMAIN heap[Cell(t)].data) + 1)
    /\ [][\A t \in Tasks :
            (/\ tpc[t] = "locked" /\ tcall[t].op.kind = "create" /\ tpc'[t] = "idle"
             /\ DOMAIN heap[Cell(t)].data = 1..Cardinality(DOMAIN heap[Cell(t)].data)) =>
                /\ tout'[t].ok
                /\ tout'[t].val.id \notin DOMAIN heap[Cell(t)].data
                /\ DOMAIN heap'[Cell(t)].data =
                     DOMAIN heap[Cell(t)].data \cup {tout'[t].val.id}
                /\ heap'[Cell(t)].data[tout'[t].val.id] = tout'[t].val
                /\ \A k \in DOMAIN heap[Cell(t)].data :
                     heap'[Cell(t)].data[k] = heap[Cell(t)].data[k]
      ]_vars
\* Two creates run at once, each through the copy of its task: one has
\* computed the id 1 behind the write guard and the other waits for the
\* guard.
C23_Witness ==
    \E t, u \in Tasks :
        /\ tpc[t] = "locked"
        /\ tcall[t].op.kind = "create"
        /\ "id" \in DOMAIN tcall[t]
        /\ tcall[t].id = 1
        /\ tcall[t].repo = t
        /\ tpc[u] = "waiting"
        /\ tcall[u].op.kind = "create"
        /\ tcall[u].repo = u
        /\ Cell(u) = Cell(t)

=============================================================================
